---- MODULE Spec2Model ----
(***************************************************************************)
(* Startup bootstrap of the Cribb backend (config/config.go): ConnectDB    *)
(* validates the environment, connects and pings, then initializeDatabase  *)
(* migrates legacy groups, builds the index set of each of the seven       *)
(* collections in a fixed order and seeds the predefined pantry            *)
(* categories.  The store is shared: several processes may bootstrap       *)
(* against it and application clients insert documents at any time.        *)
(*                                                                         *)
(* Every store operation of the code is one action; its result is either   *)
(* decided by the store's contents (a duplicate key, an index conflict) or *)
(* is an environment failure (network error, timeout) chosen with \E.      *)
(* The automatic _id index of a collection is never dropped nor declared   *)
(* by the code and is left out of the index sets.                          *)
(***************************************************************************)
EXTENDS Integers, Sequences, FiniteSets, TLC

VARIABLES
    env,        \* env[p]: the environment of process p (MONGODB_URI, DB_NAME, JWT_SECRET)
    pc,         \* pc[p]: the store operation process p issues next, or its final state
    DB,         \* DB[p]: the package variable DB (config.go:20), Nil until assigned
    JWTSecret,  \* JWTSecret[p]: the package variable JWTSecret (config.go:21)
    fatal,      \* fatal[p]: the message of the log.Fatal that ended the run, or Nil
    log,        \* log[p]: the operations issued in the current run, with their results
    runs,       \* runs[p]: the number of times process p has been started
    begin,      \* begin[p]: what the store held when the current run started
    prev,       \* prev[p]: how the run before the current one ended and what it left
    exists,     \* the collections that exist in the store's catalog
    indexes,    \* indexes[c]: the indexes of collection c
    docs,       \* docs[c]: the documents of collection c, a bag (value -> copies)
    writes      \* number of documents application clients have inserted so far

vars == <<env, pc, DB, JWTSecret, fatal, log, runs, begin, prev,
          exists, indexes, docs, writes>>

procVars == <<env, pc, DB, JWTSecret, fatal, log, runs, begin, prev>>
storeVars == <<exists, indexes, docs>>

-----------------------------------------------------------------------------
(* Bounds of the model *)

\* number of times one process is started (first start and restarts)
MaxRuns == 2

\* number of documents application clients insert over the store's lifetime
MaxClientInserts == 1

\* The bootstrap processes; Spec starts only the first, SpecConc both
Procs == {1, 2}

Nil == "<nil>"
\* a field a document does not have ($exists: false); a unique index keys it as null
Absent == "<absent>"

-----------------------------------------------------------------------------
(* Strings of the environment, as sequences of characters *)

IsSpace(ch) == ch \in {" ", "\t", "\n"}

RECURSIVE TrimLeft(_)
TrimLeft(s) == IF s # <<>> /\ IsSpace(Head(s)) THEN TrimLeft(Tail(s)) ELSE s

RECURSIVE TrimRight(_)
TrimRight(s) ==
    IF s # <<>> /\ IsSpace(s[Len(s)]) THEN TrimRight(SubSeq(s, 1, Len(s) - 1)) ELSE s

\* strings.TrimSpace
TrimSpace(s) == TrimRight(TrimLeft(s))

\* values an environment variable may hold: unset, blank, set (with padding)
EnvValues == {<<>>, <<" ">>, <<" ", "v", "\n">>}

Environments == [MONGODB_URI : EnvValues, DB_NAME : EnvValues, JWT_SECRET : EnvValues]

NoEnv == [MONGODB_URI |-> <<>>, DB_NAME |-> <<>>, JWT_SECRET |-> <<>>]

-----------------------------------------------------------------------------
(* Collections, documents and declared indexes *)

Order == <<"users", "groups", "chores", "recurring_chores", "chore_completions",
           "shopping_cart", "pantry_categories">>

Collections == {Order[i] : i \in 1..Len(Order)}

\* an index: its key (fields with directions), uniqueness, partial filter field
Index(keys, unique, partial) == [keys |-> keys, unique |-> unique, partial |-> partial]

Plain(field, dir) == Index(<<<<field, dir>>>>, FALSE, Absent)

Unique(field) == Index(<<<<field, 1>>>>, TRUE, Absent)

\* variant: the username index declared without the unique option
usersIndexesNotUnique ==
    {Plain("username", 1), Unique("phone_number"), Plain("score", -1), Plain("room_number", 1)}

usersIndexes ==
    {Unique("username"), Unique("phone_number"), Plain("score", -1), Plain("room_number", 1)}

\* variant: the group_code index declared without the unique option
groupsIndexesCodeNotUnique == {Unique("name"), Plain("group_code", 1)}

groupsIndexes == {Unique("name"), Unique("group_code")}

choresIndexes ==
    {Plain("group_id", 1), Plain("assigned_to", 1), Plain("status", 1),
     Plain("due_date", 1), Plain("recurring_id", 1)}

recurringChoresIndexes ==
    {Plain("group_id", 1), Plain("is_active", 1), Plain("next_assignment", 1)}

completionsIndexes ==
    {Plain("chore_id", 1), Plain("user_id", 1), Plain("completed_at", -1)}

shoppingCartIndexes ==
    {Plain("group_id", 1), Plain("user_id", 1), Plain("item_name", 1),
     Index(<<<<"user_id", 1>>, <<"group_id", 1>>, <<"item_name", 1>>>>, TRUE, Absent)}

\* variant: the (name, group_id) index declared without its partial filter
categoriesIndexesUnfiltered ==
    {Index(<<<<"name", 1>>, <<"group_id", 1>>>>, TRUE, Absent),
     Plain("type", 1), Plain("group_id", 1), Plain("is_active", 1)}

categoriesIndexes ==
    {Index(<<<<"name", 1>>, <<"group_id", 1>>>>, TRUE, "group_id"),
     Plain("type", 1), Plain("group_id", 1), Plain("is_active", 1)}

Declared(c) ==
    CASE c = "users" -> usersIndexes
      [] c = "groups" -> groupsIndexes
      [] c = "chores" -> choresIndexes
      [] c = "recurring_chores" -> recurringChoresIndexes
      [] c = "chore_completions" -> completionsIndexes
      [] c = "shopping_cart" -> shoppingCartIndexes
      [] c = "pantry_categories" -> categoriesIndexes

\* the subject of each index-creation error message of initializeDatabase
ErrorName(c) ==
    CASE c = "users" -> "failed to create user indexes"
      [] c = "groups" -> "failed to create group indexes"
      [] c = "chores" -> "failed to create chore indexes"
      [] c = "recurring_chores" -> "failed to create recurring chore indexes"
      [] c = "chore_completions" -> "failed to create chore completion indexes"
      [] c = "shopping_cart" -> "failed to create shopping cart indexes"
      [] c = "pantry_categories" -> "failed to create pantry categories indexes"

\* an index an older deployment left on groups: name without the unique option
StaleIndex == Plain("name", 1)

\* the indexes an older deployment may have left on groups: one on a key the declared
\* set also uses, one on a key it does not use
StaleIndexes == {StaleIndex, Plain("created_at", -1)}

\* the groups an older deployment (before group_code existed) left in the store:
\* none (a fresh store), one, or two
InitialGroups ==
    {{}, {[name |-> "g1", group_code |-> Absent]},
     {[name |-> "g1", group_code |-> Absent], [name |-> "g2", group_code |-> Absent]}}

predefinedCategories ==
    <<"Dairy", "Fruits", "Vegetables", "Grains & Cereals", "Meat & Poultry", "Seafood",
      "Beverages", "Snacks", "Condiments & Sauces", "Spices & Seasonings",
      "Baking Supplies", "Frozen Foods", "Canned Goods", "Oils & Vinegars",
      "Nuts & Seeds", "Bread & Bakery", "Pasta & Rice", "Cleaning Supplies",
      "Personal Care", "Other">>

NumPredefined == Len(predefinedCategories)

\* models.CreatePredefinedCategory: a predefined category has no group scope
CreatePredefinedCategory(name) ==
    [name |-> name, type |-> "predefined", group_id |-> Absent]

PredefinedDocs == {CreatePredefinedCategory(predefinedCategories[i]) : i \in 1..NumPredefined}

\* the documents application clients write
UserDocs ==
    {[username |-> "alice", phone_number |-> "p1"],
     [username |-> "alice", phone_number |-> "p2"],
     [username |-> "bob", phone_number |-> "p1"]}

GroupDocs == [name : {"g1", "g2"}, group_code : {Absent, "LEGACY", "c1"}]

\* groups written by clients: without a code (older version) or with a generated one
ClientGroupDocs == {d \in GroupDocs : d.group_code # "LEGACY"}

CartDocs == [user_id : {"u1"}, group_id : {"g1"}, item_name : {"milk", "eggs"}]

CustomCategoryDocs == [name : {"Dairy"}, type : {"custom"}, group_id : {Absent, "g1"}]

ClientDocs(c) ==
    CASE c = "users" -> UserDocs
      [] c = "groups" -> ClientGroupDocs
      [] c = "shopping_cart" -> CartDocs
      [] c = "pantry_categories" -> CustomCategoryDocs
      [] OTHER -> {}

DocValues(c) ==
    CASE c = "groups" -> GroupDocs
      [] c = "pantry_categories" -> CustomCategoryDocs \cup PredefinedDocs
      [] OTHER -> ClientDocs(c)

EmptyBag(c) == [d \in DocValues(c) |-> 0]

Present(bag) == {d \in DOMAIN bag : bag[d] > 0}

RECURSIVE SumOver(_, _)
SumOver(bag, S) ==
    IF S = {} THEN 0
    ELSE LET d == CHOOSE x \in S : TRUE IN bag[d] + SumOver(bag, S \ {d})

Count(bag, S) == SumOver(bag, S \cap DOMAIN bag)

Size(bag) == Count(bag, DOMAIN bag)

-----------------------------------------------------------------------------
(* The store: unique indexes, inserts, updates, index builds *)

KeyOf(d, idx) == [i \in 1..Len(idx.keys) |-> d[idx.keys[i][1]]]

\* a partial index holds only the documents that have the filter field
InFilter(d, idx) == idx.partial = Absent \/ d[idx.partial] # Absent

\* two documents under a unique index share a key (a missing field keys as null)
Violates(bag, idx) ==
    /\ idx.unique
    /\ LET held == {d \in Present(bag) : InFilter(d, idx)}
       IN  \E d1 \in held, d2 \in held :
             /\ KeyOf(d1, idx) = KeyOf(d2, idx)
             /\ (d1 # d2 \/ bag[d1] >= 2)

Consistent(bag, idxs) == \A idx \in idxs : ~Violates(bag, idx)

Add(bag, d) == [bag EXCEPT ![d] = @ + 1]

\* the store accepts an insert unless a unique index of the collection forbids it
InsertAllowed(bag, d, idxs) == Consistent(Add(bag, d), idxs)

\* InsertMany (ordered): inserts in sequence and stops at the first rejected one or
\* after `limit` documents when the batch is cut short
RECURSIVE InsertSeq(_, _, _, _)
InsertSeq(bag, ds, idxs, limit) ==
    IF ds = <<>> \/ limit = 0 \/ ~InsertAllowed(bag, Head(ds), idxs)
    THEN [bag |-> bag, n |-> 0]
    ELSE LET rest == InsertSeq(Add(bag, Head(ds)), Tail(ds), idxs, limit - 1)
         IN  [bag |-> rest.bag, n |-> rest.n + 1]

\* variant: an empty filter, matching every group
LegacyFilterAll(d) == TRUE

\* the filter of the backfill: {"group_code": {"$exists": false}}
LegacyFilter(d) == d.group_code = Absent

\* {"$set": {"group_code": "LEGACY"}}
SetLegacy(d) == [d EXCEPT !.group_code = "LEGACY"]

\* UpdateMany(filter, $set) applied to every matching document
Backfilled(bag) ==
    [d \in DOMAIN bag |->
        Count(bag, {e \in DOMAIN bag : IF LegacyFilter(e) THEN SetLegacy(e) = d ELSE e = d})]

\* number of documents the backfill matches
Matched(bag) == Count(bag, {d \in DOMAIN bag : LegacyFilter(d)})

\* the update is refused when its result would break a unique index of groups
\* (under a unique group_code index at most one document matches the filter)
BackfillAccepted(bag, idxs) == Consistent(Backfilled(bag), idxs)

\* variant: creating an index that already exists is an error too
ConflictsOnExisting(c) ==
    \E i \in Declared(c), j \in indexes[c] : i.keys = j.keys

\* createIndexes is refused when a declared key exists with other options
Conflicts(c) ==
    \E i \in Declared(c), j \in indexes[c] : i.keys = j.keys /\ i # j

\* variant: the unique indexes are built without looking at the documents
CanBuildUnchecked(c) == ~Conflicts(c)

\* ... or when the documents already break a declared unique index
CanBuild(c) == ~Conflicts(c) /\ Consistent(docs[c], Declared(c))

PredefinedCount == Count(docs["pantry_categories"], PredefinedDocs)

-----------------------------------------------------------------------------
(* Bookkeeping of a run *)

Entry(op, coll, res, n) == [op |-> op, coll |-> coll, res |-> res, n |-> n]

\* every operation of the run returned without error
Clean(lg) == \A i \in 1..Len(lg) : lg[i].res = "ok"

Final == {"ready", "exited", "killed"}

PredefinedBag(dcs) == [d \in PredefinedDocs |-> dcs["pantry_categories"][d]]

Snapshot ==
    [groups |-> docs["groups"], existed |-> "groups" \in exists,
     writes |-> writes]

\* nothing but the run itself has written to the store since the run started
Quiet(p) == writes = begin[p].writes

NoPrev ==
    [ready |-> FALSE, clean |-> FALSE, quiet |-> FALSE,
     indexes |-> [c \in Collections |-> {}],
     predefined |-> [d \in PredefinedDocs |-> 0]]

\* what a run that reached the ready state left, as seen when the process starts again
Summary(p) ==
    IF pc[p] = "ready"
    THEN [ready |-> TRUE, clean |-> Clean(log[p]), quiet |-> Quiet(p),
          indexes |-> indexes, predefined |-> PredefinedBag(docs)]
    ELSE NoPrev

Logged(p, e) == log' = [log EXCEPT ![p] = Append(@, e)]

\* the run moves on to `next`; "ready" is ConnectDB returning, "exited" is log.Fatal
Advance(p, next, msg) ==
    /\ pc' = [pc EXCEPT ![p] = next]
    /\ fatal' = [fatal EXCEPT ![p] = IF next = "exited" THEN msg ELSE @]

-----------------------------------------------------------------------------
(* Failure policy of ConnectDB and initializeDatabase: where the run goes   *)
(* when an operation returns an error                                       *)

\* variant: only the users index failure is returned, the others are skipped over
OnCreateManyErrorSkipped(c) ==
    IF c = "users" THEN "exited"
    ELSE IF c = "pantry_categories" THEN "seed.count"
    ELSE Order[(CHOOSE j \in 1..Len(Order) : Order[j] = c) + 1]

\* `return fmt.Errorf("failed to create ... indexes")`, then log.Fatal in ConnectDB
OnCreateManyError(c) == "exited"

\* variant: the drop failure is logged and the run goes on to the backfill
OnDropAllErrorLogged == "groups.backfill"

\* `return fmt.Errorf("failed to drop group indexes")`
OnDropAllError == "exited"

\* variant: after the drop the run goes straight to the index creation
AfterDropAllSkipsBackfill == "groups"

\* after a successful drop the run backfills group_code
AfterDropAll == "groups.backfill"

\* variant: the drop leaves the indexes where they are
DroppedNothing(c) == indexes[c]

\* variant: the drop removes the indexes of every collection
DroppedEverywhere(c) == {}

\* the indexes of c once groupsCollection.Indexes().DropAll has succeeded
Dropped(c) == IF c = "groups" THEN {} ELSE indexes[c]

\* variant: a failed backfill is issued again
OnUpdateManyErrorRetried == "groups.backfill"

\* logged as a warning, the run continues with the groups indexes
OnUpdateManyError == "groups"

\* "Continue anyway, as this might be a fresh installation"
OnMigrateError == "users"

\* variant: the seeding error is returned by initializeDatabase
OnSeedErrorReturned == "exited"

\* "Continue anyway, as this might not be critical"
OnSeedError == "ready"

\* variant: seeding is skipped only when the whole catalog is there
SkipSeedingWhenComplete(count) == count >= NumPredefined

\* `if count > 0`: predefined categories already exist, skip seeding
SkipSeeding(count) == count > 0

\* variant: the value is checked as read, without trimming
ConfigValueUntrimmed(raw) == raw

\* the configuration value read from the environment
ConfigValue(raw) == TrimSpace(raw)

\* variant: a failed catalog query counts as the collection being there
collectionExistsOnError(ok, name) == ~ok \/ name \in exists

\* collectionExists: err == nil && len(collections) > 0
collectionExists(ok, name) == ok /\ name \in exists

\* variant: the handle is assigned whatever the ping returned
DBAssignedUnpinged(p, ok) == ConfigValue(env[p].DB_NAME)

\* the package variable DB after the ping: assigned only once the ping succeeded
DBAfterPing(p, ok) == IF ok THEN ConfigValue(env[p].DB_NAME) ELSE DB[p]

\* variant: recurring_chores is indexed before chores
AfterIndexesReordered(c) ==
    CASE c = "users" -> "groups.probe"
      [] c = "groups" -> "recurring_chores"
      [] c = "recurring_chores" -> "chores"
      [] c = "chores" -> "chore_completions"
      [] c = "chore_completions" -> "shopping_cart"
      [] c = "shopping_cart" -> "pantry_categories"
      [] OTHER -> "seed.count"

\* the step after the index set of c has been created
AfterIndexes(c) ==
    LET i == CHOOSE j \in 1..Len(Order) : Order[j] = c
    IN  IF c = "users" THEN "groups.probe"
        ELSE IF i = Len(Order) THEN "seed.count"
        ELSE Order[i + 1]

\* how many documents of the batch reach the store when InsertMany is cut short
PartialCounts == {0, 1, NumPredefined - 1}

-----------------------------------------------------------------------------
(* Actions *)

Init ==
    /\ env = [p \in Procs |-> NoEnv]
    /\ pc = [p \in Procs |-> "idle"]
    /\ DB = [p \in Procs |-> Nil]
    /\ JWTSecret = [p \in Procs |-> Nil]
    /\ fatal = [p \in Procs |-> Nil]
    /\ log = [p \in Procs |-> <<>>]
    /\ runs = [p \in Procs |-> 0]
    /\ begin = [p \in Procs |-> [groups |-> EmptyBag("groups"), existed |-> FALSE, writes |-> 0]]
    /\ prev = [p \in Procs |-> NoPrev]
    /\ writes = 0
    /\ \E old \in InitialGroups :
         /\ docs = [c \in Collections |->
                       IF c = "groups"
                       THEN [d \in GroupDocs |-> IF d \in old THEN 1 ELSE 0]
                       ELSE EmptyBag(c)]
         /\ \E stale \in StaleIndexes :
              indexes = [c \in Collections |->
                            IF c = "groups" /\ old # {} THEN {stale} ELSE {}]
         /\ exists = IF old # {} THEN {"groups"} ELSE {}

\* the process is started with one of the environments `envs`
StartWith(p, envs) ==
    /\ \E e \in envs : env' = [env EXCEPT ![p] = e]
    /\ pc' = [pc EXCEPT ![p] = "start"]
    /\ DB' = [DB EXCEPT ![p] = Nil]
    /\ JWTSecret' = [JWTSecret EXCEPT ![p] = Nil]
    /\ fatal' = [fatal EXCEPT ![p] = Nil]
    /\ log' = [log EXCEPT ![p] = <<>>]
    /\ runs' = [runs EXCEPT ![p] = @ + 1]
    /\ begin' = [begin EXCEPT ![p] = Snapshot]
    /\ prev' = [prev EXCEPT ![p] = Summary(p)]
    /\ UNCHANGED <<exists, indexes, docs, writes>>

\* the process is started, or started again after its last run ended
Launch(p) ==
    /\ pc[p] \in Final \cup {"idle"}
    /\ runs[p] < MaxRuns
    /\ StartWith(p, Environments)

\* a deployment starts the process once, with every variable set
Deploy(p) ==
    /\ pc[p] = "idle"
    /\ StartWith(p, {e \in Environments : \A v \in DOMAIN e : TrimSpace(e[v]) # <<>>})

\* ConnectDB, lines 38-56: read, trim and check the three variables
ValidateConfig(p) ==
    /\ pc[p] = "start"
    /\ LET mongoURI == ConfigValue(env[p].MONGODB_URI)
           dbName == ConfigValue(env[p].DB_NAME)
           jwtSecret == ConfigValue(env[p].JWT_SECRET)
       IN  /\ UNCHANGED <<log, exists, indexes, docs>>
           /\ IF mongoURI = <<>>
              THEN /\ Advance(p, "exited", "MONGODB_URI is required in .env file")
                   /\ UNCHANGED JWTSecret
              ELSE IF dbName = <<>>
              THEN /\ Advance(p, "exited", "DB_NAME is required in .env file")
                   /\ UNCHANGED JWTSecret
              ELSE IF jwtSecret = <<>>
              THEN /\ Advance(p, "exited", "JWT_SECRET is required in .env file")
                   /\ UNCHANGED JWTSecret
              ELSE /\ JWTSecret' = [JWTSecret EXCEPT ![p] = jwtSecret]
                   /\ Advance(p, "connect", Nil)
    /\ UNCHANGED <<env, DB, runs, begin, prev, writes>>

\* mongo.Connect
Connect(p) ==
    /\ pc[p] = "connect"
    /\ \E ok \in BOOLEAN :
         /\ Logged(p, Entry("Connect", Absent, IF ok THEN "ok" ELSE "fault", 0))
         /\ UNCHANGED <<exists, indexes, docs, writes>>
         /\ Advance(p, IF ok THEN "ping" ELSE "exited", "Failed to connect to MongoDB")
    /\ UNCHANGED <<env, DB, JWTSecret, runs, begin, prev, writes>>

\* client.Ping, then DB = client.Database(dbName)
Ping(p) ==
    /\ pc[p] = "ping"
    /\ \E ok \in BOOLEAN :
         /\ Logged(p, Entry("Ping", Absent, IF ok THEN "ok" ELSE "fault", 0))
         /\ UNCHANGED <<exists, indexes, docs, writes>>
         /\ DB' = [DB EXCEPT ![p] = DBAfterPing(p, ok)]
         /\ Advance(p, IF ok THEN "migrate" ELSE "exited", "Failed to ping MongoDB")
    /\ UNCHANGED <<env, JWTSecret, runs, begin, prev, writes>>

\* models.MigrateExistingGroups(DB): give every group without group_code the sentinel
MigrateExistingGroups(p) ==
    /\ pc[p] = "migrate"
    /\ \E ok \in BOOLEAN :
         LET bag == docs["groups"]
             done == ok /\ BackfillAccepted(bag, indexes["groups"])
         IN  /\ docs' = IF done THEN [docs EXCEPT !["groups"] = Backfilled(bag)] ELSE docs
             /\ Logged(p, Entry("MigrateExistingGroups", "groups",
                                IF done THEN "ok" ELSE IF ok THEN "rejected" ELSE "fault",
                                IF done THEN Matched(bag) ELSE 0))
             /\ UNCHANGED <<exists, indexes>>
             /\ Advance(p, IF done THEN "users" ELSE OnMigrateError, Nil)
    /\ UNCHANGED <<env, DB, JWTSecret, runs, begin, prev, writes>>

\* Indexes().CreateMany on the collection the run has reached
CreateIndexes(p) ==
    /\ pc[p] \in Collections
    /\ LET c == pc[p] IN
       \E ok \in BOOLEAN :
         LET done == ok /\ CanBuild(c) IN
         /\ indexes' = IF done THEN [indexes EXCEPT ![c] = @ \cup Declared(c)] ELSE indexes
         /\ exists' = IF done THEN exists \cup {c} ELSE exists
         /\ Logged(p, Entry("CreateMany", c,
                            IF done THEN "ok" ELSE IF ok THEN "rejected" ELSE "fault", 0))
         /\ UNCHANGED docs
         /\ Advance(p, IF done THEN AfterIndexes(c) ELSE OnCreateManyError(c), ErrorName(c))
    /\ UNCHANGED <<env, DB, JWTSecret, runs, begin, prev, writes>>

\* collectionExists(ctx, DB, "groups")
ProbeGroups(p) ==
    /\ pc[p] = "groups.probe"
    /\ \E ok \in BOOLEAN :
         LET found == collectionExists(ok, "groups") IN
         /\ Logged(p, Entry("ListCollectionNames", "groups", IF ok THEN "ok" ELSE "fault",
                            IF found THEN 1 ELSE 0))
         /\ UNCHANGED <<exists, indexes, docs, writes>>
         /\ Advance(p, IF found THEN "groups.drop" ELSE "groups", Nil)
    /\ UNCHANGED <<env, DB, JWTSecret, runs, begin, prev, writes>>

\* groupsCollection.Indexes().DropAll
DropGroupIndexes(p) ==
    /\ pc[p] = "groups.drop"
    /\ \E ok \in BOOLEAN :
         /\ indexes' = IF ok THEN [c \in Collections |-> Dropped(c)] ELSE indexes
         /\ Logged(p, Entry("DropAll", "groups", IF ok THEN "ok" ELSE "fault", 0))
         /\ UNCHANGED <<exists, docs>>
         /\ Advance(p, IF ok THEN AfterDropAll ELSE OnDropAllError,
                    "failed to drop group indexes")
    /\ UNCHANGED <<env, DB, JWTSecret, runs, begin, prev, writes>>

\* UpdateMany({group_code: {$exists: false}}, {$set: {group_code: "LEGACY"}})
BackfillGroupCode(p) ==
    /\ pc[p] = "groups.backfill"
    /\ \E ok \in BOOLEAN :
         LET bag == docs["groups"]
             done == ok /\ BackfillAccepted(bag, indexes["groups"])
         IN  /\ docs' = IF done THEN [docs EXCEPT !["groups"] = Backfilled(bag)] ELSE docs
             /\ Logged(p, Entry("UpdateMany", "groups",
                                IF done THEN "ok" ELSE IF ok THEN "rejected" ELSE "fault",
                                IF done THEN Matched(bag) ELSE 0))
             /\ UNCHANGED <<exists, indexes>>
             /\ Advance(p, IF done THEN "groups" ELSE OnUpdateManyError, Nil)
    /\ UNCHANGED <<env, DB, JWTSecret, runs, begin, prev, writes>>

\* seedPredefinedCategories, the guard: CountDocuments({type: "predefined"})
SeedCount(p) ==
    /\ pc[p] = "seed.count"
    /\ \E ok \in BOOLEAN :
         LET count == PredefinedCount IN
         /\ Logged(p, Entry("CountDocuments", "pantry_categories",
                            IF ok THEN "ok" ELSE "fault", IF ok THEN count ELSE 0))
         /\ UNCHANGED <<exists, indexes, docs, writes>>
         /\ Advance(p, IF ~ok THEN OnSeedError
                       ELSE IF SkipSeeding(count) THEN "ready" ELSE "seed.insert", Nil)
    /\ UNCHANGED <<env, DB, JWTSecret, runs, begin, prev, writes>>

\* seedPredefinedCategories, the batch: InsertMany of the whole catalog
SeedInsert(p) ==
    /\ pc[p] = "seed.insert"
    /\ \E limit \in PartialCounts \cup {NumPredefined} :
         LET categories == [i \in 1..NumPredefined |->
                               CreatePredefinedCategory(predefinedCategories[i])]
             r == InsertSeq(docs["pantry_categories"], categories,
                            indexes["pantry_categories"], limit)
             res == IF r.n = NumPredefined THEN "ok"
                    ELSE IF limit = NumPredefined THEN "rejected" ELSE "fault"
         IN  /\ docs' = [docs EXCEPT !["pantry_categories"] = r.bag]
             /\ exists' = IF r.n > 0 THEN exists \cup {"pantry_categories"} ELSE exists
             /\ Logged(p, Entry("InsertMany", "pantry_categories", res, r.n))
             /\ UNCHANGED indexes
             /\ Advance(p, IF res = "ok" THEN "ready" ELSE OnSeedError, Nil)
    /\ UNCHANGED <<env, DB, JWTSecret, runs, begin, prev, writes>>

\* the process is killed from outside before ConnectDB returns
Kill(p) ==
    /\ pc[p] \notin Final \cup {"idle"}
    /\ UNCHANGED <<log, exists, indexes, docs>>
    /\ Advance(p, "killed", Nil)
    /\ UNCHANGED <<env, DB, JWTSecret, runs, begin, prev, writes>>

\* the process is killed while the InsertMany of the catalog is under way: part of the
\* batch has reached the store
KillDuringSeed(p) ==
    /\ pc[p] = "seed.insert"
    /\ \E limit \in PartialCounts \ {0} :
         LET categories == [i \in 1..NumPredefined |->
                               CreatePredefinedCategory(predefinedCategories[i])]
             r == InsertSeq(docs["pantry_categories"], categories,
                            indexes["pantry_categories"], limit)
         IN  /\ docs' = [docs EXCEPT !["pantry_categories"] = r.bag]
             /\ exists' = IF r.n > 0 THEN exists \cup {"pantry_categories"} ELSE exists
             /\ Logged(p, Entry("InsertMany", "pantry_categories", "fault", r.n))
             /\ UNCHANGED indexes
             /\ Advance(p, "killed", Nil)
    /\ UNCHANGED <<env, DB, JWTSecret, runs, begin, prev, writes>>

\* an application client inserts a document
ClientInsert ==
    /\ writes < MaxClientInserts
    /\ \E c \in Collections : \E d \in ClientDocs(c) :
         IF InsertAllowed(docs[c], d, indexes[c])
         THEN /\ docs' = [docs EXCEPT ![c] = Add(@, d)]
              /\ exists' = exists \cup {c}
              /\ writes' = writes + 1
         ELSE UNCHANGED <<docs, exists, writes>>
    /\ UNCHANGED <<procVars, indexes>>

Bootstrap(p) ==
    \/ ValidateConfig(p)
    \/ Connect(p)
    \/ Ping(p)
    \/ MigrateExistingGroups(p)
    \/ CreateIndexes(p)
    \/ ProbeGroups(p)
    \/ DropGroupIndexes(p)
    \/ BackfillGroupCode(p)
    \/ SeedCount(p)
    \/ SeedInsert(p)

\* one bootstrap process at a time, restarted and killed at will, with clients writing
Next ==
    \/ Launch(1)
    \/ Bootstrap(1)
    \/ Kill(1)
    \/ KillDuringSeed(1)
    \/ ClientInsert

Spec == Init /\ [][Next]_vars

\* two processes bootstrapping against the same store, each started once
NextConc == \E p \in Procs : Deploy(p) \/ Bootstrap(p)

SpecConc == Init /\ [][NextConc]_vars

-----------------------------------------------------------------------------
(* Vocabulary of the properties *)

Ran(p) == DOMAIN log[p]

Did(p, i, op) == log[p][i].op = op

Failed(p, i) == log[p][i].res # "ok"

\* no operation of the run failed because of the environment (network, timeout)
FaultFree(p) == \A i \in Ran(p) : log[p][i].res # "fault"

\* the environment of p has all three variables set
Configured(p) == \A v \in DOMAIN env[p] : TrimSpace(env[p][v]) # <<>>

\* documents the batch insert of the current run of p put in the store
SeedInserted(p) ==
    LET S == {i \in Ran(p) : Did(p, i, "InsertMany")}
    IN  IF S = {} THEN 0 ELSE log[p][CHOOSE i \in S : TRUE].n

\* ConnectDB has returned or has ended the process itself
Completed(p) == pc[p] \in {"ready", "exited"}

\* the bootstrap process of Spec
Solo == CHOOSE p \in Procs : \A q \in Procs : p <= q

\* no two documents of the bag agree on all the fields
NoTwoShare(bag, fields) ==
    \A d1 \in Present(bag), d2 \in Present(bag) :
        (\A f \in fields : d1[f] = d2[f]) => (d1 = d2 /\ bag[d1] = 1)

\* the fields a collection must keep unique, alone or together
UniqueKeys(c) ==
    CASE c = "users" -> {{"username"}, {"phone_number"}}
      [] c = "groups" -> {{"name"}, {"group_code"}}
      [] c = "shopping_cart" -> {{"user_id", "group_id", "item_name"}}
      [] OTHER -> {}

-----------------------------------------------------------------------------
(* C1: idempotence of the bootstrap *)

\* a second run that follows a successful first one has ended; the store and the
\* network did not fail during it and nobody else wrote to the store
SecondRunEnded(p) ==
    /\ Completed(p) /\ Configured(p)
    /\ prev[p].ready /\ prev[p].quiet
    /\ FaultFree(p) /\ Quiet(p)

-----------------------------------------------------------------------------
(* C2: the seeding guard *)

\* C2: when the count of predefined categories is above zero (a partial seed
\* included) the seeder inserts nothing and the run is ready; the batch insert is
\* issued only right after a count that returned zero.
C2_SeedingGuard ==
    /\ \A i \in Ran(Solo) :
         /\ (Did(Solo, i, "CountDocuments") /\ ~Failed(Solo, i) /\ log[Solo][i].n > 0) =>
                (i = Len(log[Solo]) /\ pc[Solo] = "ready")
         /\ Did(Solo, i, "InsertMany") =>
                /\ i > 1
                /\ Did(Solo, i - 1, "CountDocuments")
                /\ ~Failed(Solo, i - 1)
                /\ log[Solo][i - 1].n = 0
    /\ pc[Solo] = "seed.insert" => PredefinedCount = 0

C2_Witness ==
    /\ pc[Solo] = "ready"
    /\ \E i \in Ran(Solo) :
         /\ Did(Solo, i, "CountDocuments")
         /\ log[Solo][i].n > 0 /\ log[Solo][i].n < NumPredefined
    /\ PredefinedCount < NumPredefined

-----------------------------------------------------------------------------
(* C3: predefined categories are created at most once *)

\* C3: whatever the interleaving of bootstrap runs, the store never holds more than
\* the 20 predefined categories (no category twice).
C3_SeededAtMostOnce ==
    /\ PredefinedCount <= NumPredefined
    /\ \A d \in PredefinedDocs : docs["pantry_categories"][d] <= 1

-----------------------------------------------------------------------------
(* C4: an index-creation failure is fatal *)

\* C4: a failed index creation is the last operation of its run: the process has
\* exited with the error naming the collection, no later collection's indexes were
\* asked for and the seeder was not invoked.
C4_IndexFailureFatal ==
    \A i \in Ran(Solo) :
        (Did(Solo, i, "CreateMany") /\ Failed(Solo, i)) =>
            /\ i = Len(log[Solo])
            /\ pc[Solo] = "exited"
            /\ fatal[Solo] = ErrorName(log[Solo][i].coll)
            /\ \A j \in Ran(Solo) :
                 /\ ~Did(Solo, j, "CountDocuments") /\ ~Did(Solo, j, "InsertMany")
                 /\ (Did(Solo, j, "CreateMany") /\ j # i) => ~Failed(Solo, j)

C4_Witness ==
    /\ pc[Solo] = "exited"
    /\ fatal[Solo] = ErrorName("chores")
    /\ indexes["recurring_chores"] = {}
    /\ \E i \in Ran(Solo) :
         Did(Solo, i, "CreateMany") /\ Failed(Solo, i) /\ log[Solo][i].coll = "chores"

-----------------------------------------------------------------------------
(* C5: a failure to drop the groups indexes *)

\* C5 as stated: when dropping the groups indexes fails the run does not terminate.
C5_DropFailureAdvisory ==
    \A i \in Ran(Solo) :
        (Did(Solo, i, "DropAll") /\ Failed(Solo, i)) => pc[Solo] # "exited"

\* C5 amended: when dropping the groups indexes fails, initializeDatabase returns
\* "failed to drop group indexes" and the process exits: no backfill, no index
\* creation and no seeding follow in that run.
C5_DropFailureFatal ==
    \A i \in Ran(Solo) :
        (Did(Solo, i, "DropAll") /\ Failed(Solo, i)) =>
            /\ i = Len(log[Solo])
            /\ pc[Solo] = "exited"
            /\ fatal[Solo] = "failed to drop group indexes"
            /\ \A j \in Ran(Solo) :
                 ~Did(Solo, j, "UpdateMany") /\ ~Did(Solo, j, "InsertMany")

C5_Witness ==
    /\ pc[Solo] = "exited"
    /\ fatal[Solo] = "failed to drop group indexes"
    /\ begin[Solo].existed
    /\ \E i \in Ran(Solo) : Did(Solo, i, "DropAll") /\ Failed(Solo, i)

-----------------------------------------------------------------------------
(* C6: migration and seeding failures are advisory *)

Advisory == {"MigrateExistingGroups", "UpdateMany", "CountDocuments", "InsertMany"}

AllIndexesCreated(p) ==
    \A c \in Collections :
        \E i \in Ran(p) : Did(p, i, "CreateMany") /\ log[p][i].coll = c /\ ~Failed(p, i)

\* C6: a failed migration, backfill, count or batch insert never ends the run, and a
\* run whose seven index creations succeeded returns normally whatever else failed.
C6_AdvisoryFailures ==
    /\ \A i \in Ran(Solo) :
         (log[Solo][i].op \in Advisory /\ Failed(Solo, i) /\ i = Len(log[Solo])) =>
             (pc[Solo] # "exited" /\ fatal[Solo] = Nil)
    /\ (Completed(Solo) /\ AllIndexesCreated(Solo)) =>
         (pc[Solo] = "ready" /\ fatal[Solo] = Nil /\ DB[Solo] # Nil)

C6_Witness ==
    /\ pc[Solo] = "ready"
    /\ \A op \in {"MigrateExistingGroups", "UpdateMany", "InsertMany"} :
         \E i \in Ran(Solo) : Did(Solo, i, op) /\ Failed(Solo, i)

-----------------------------------------------------------------------------
(* C7: fatal configuration and connection paths *)

StoreMutating == {"MigrateExistingGroups", "DropAll", "UpdateMany", "CreateMany", "InsertMany"}

RequiredMessage(v) ==
    CASE v = "MONGODB_URI" -> "MONGODB_URI is required in .env file"
      [] v = "DB_NAME" -> "DB_NAME is required in .env file"
      [] v = "JWT_SECRET" -> "JWT_SECRET is required in .env file"

\* C7: with a variable empty after trimming the process exits before any connection
\* attempt; a failed connect or ping ends the run at once; in all these cases DB is
\* never assigned and no operation that changes the store is issued.
C7_FatalConfigAndConnection ==
    /\ (pc[Solo] # "idle" /\ ~Configured(Solo)) =>
         /\ log[Solo] = <<>> /\ DB[Solo] = Nil
         /\ pc[Solo] \in {"start", "exited", "killed"}
         /\ pc[Solo] = "exited" =>
              \E v \in DOMAIN env[Solo] :
                  TrimSpace(env[Solo][v]) = <<>> /\ fatal[Solo] = RequiredMessage(v)
    /\ \A i \in Ran(Solo) :
         (log[Solo][i].op \in {"Connect", "Ping"} /\ Failed(Solo, i)) =>
             /\ i = Len(log[Solo])
             /\ pc[Solo] = "exited"
             /\ DB[Solo] = Nil
    /\ DB[Solo] = Nil =>
         \A i \in Ran(Solo) : log[Solo][i].op \notin StoreMutating
    /\ DB[Solo] # Nil =>
         \E i \in Ran(Solo) : Did(Solo, i, "Ping") /\ ~Failed(Solo, i)

C7_Witness ==
    /\ pc[Solo] = "exited"
    /\ env[Solo].MONGODB_URI # <<>> /\ TrimSpace(env[Solo].MONGODB_URI) = <<>>
    /\ fatal[Solo] = RequiredMessage("MONGODB_URI")
    /\ DB[Solo] = Nil

-----------------------------------------------------------------------------
(* C8: the legacy migration *)

Names == {d.name : d \in GroupDocs}

Group(n, c) == [name |-> n, group_code |-> c]

\* every group has a code; the groups that had none before the run carry the
\* sentinel; every other group has the code it had
MigratedFrom(before, after) ==
    \A n \in Names :
        /\ after[Group(n, Absent)] = 0
        /\ after[Group(n, "LEGACY")] = before[Group(n, "LEGACY")] + before[Group(n, Absent)]
        /\ \A d \in GroupDocs :
             (d.name = n /\ d.group_code \notin {Absent, "LEGACY"}) => after[d] = before[d]

\* a run on a store whose groups collection existed is ready, nobody else having
\* written meanwhile
MigrationRunReady(p) == pc[p] = "ready" /\ begin[p].existed /\ Quiet(p)

SomeBackfillDone(p) ==
    \E i \in Ran(p) : log[p][i].op \in {"MigrateExistingGroups", "UpdateMany"} /\ ~Failed(p, i)

-----------------------------------------------------------------------------
(* C9: two or more legacy groups *)

Legacy(bag) == Count(bag, {d \in GroupDocs : d.group_code = Absent})

Sentinels(bag) == Count(bag, {d \in GroupDocs : d.group_code = "LEGACY"})

AfterGroups == {"chores", "recurring_chores", "chore_completions", "shopping_cart",
                "pantry_categories"}

\* C9: a run that starts on a store with two or more groups lacking group_code, or
\* (a restart after such a run) two or more groups carrying "LEGACY", never reaches
\* the ready state, creates no index of a later collection and does not seed; when
\* nothing fails before the groups step it backfills them all and exits at the
\* groups index creation.
C9_TwoLegacyGroups ==
    (pc[Solo] # "idle" /\
       (Legacy(begin[Solo].groups) >= 2 \/ Sentinels(begin[Solo].groups) >= 2)) =>
        /\ pc[Solo] # "ready"
        /\ \A i \in Ran(Solo) :
             /\ log[Solo][i].coll \notin AfterGroups
             /\ ~Did(Solo, i, "CountDocuments") /\ ~Did(Solo, i, "InsertMany")
        /\ (pc[Solo] = "exited" /\ FaultFree(Solo)
              /\ \E i \in Ran(Solo) :
                    Did(Solo, i, "CreateMany") /\ log[Solo][i].coll = "users"
                        /\ ~Failed(Solo, i)) =>
             /\ fatal[Solo] = ErrorName("groups")
             /\ Quiet(Solo) =>
                  /\ Legacy(docs["groups"]) = 0
                  /\ Sentinels(docs["groups"]) =
                       Sentinels(begin[Solo].groups) + Legacy(begin[Solo].groups)

C9_Witness ==
    /\ runs[Solo] = 2
    /\ pc[Solo] = "exited"
    /\ fatal[Solo] = ErrorName("groups")
    /\ Sentinels(begin[Solo].groups) = 2
    /\ indexes["chores"] = {}

-----------------------------------------------------------------------------
(* C10: uniqueness after bootstrap *)

\* C10: while the process is ready no two users share a username or a phone number,
\* no two groups a name or a code, no two cart items the triple (user, group, item),
\* and the store refuses any insert that would make two documents share such a key.
C10_Uniqueness ==
    pc[Solo] = "ready" =>
        \A c \in Collections : \A key \in UniqueKeys(c) :
            /\ NoTwoShare(docs[c], key)
            /\ \A d \in ClientDocs(c) :
                 ~NoTwoShare(Add(docs[c], d), key) => ~InsertAllowed(docs[c], d, indexes[c])

C10_Witness ==
    /\ pc[Solo] = "ready"
    /\ writes > begin[Solo].writes
    /\ \E d \in UserDocs, e \in UserDocs :
         /\ docs["users"][d] = 1
         /\ e # d /\ e.username = d.username
         /\ ~InsertAllowed(docs["users"], e, indexes["users"])

-----------------------------------------------------------------------------
(* C11: partial-filter uniqueness on pantry_categories *)

Categories == docs["pantry_categories"]

\* a category with the name and the group scope of d is in the store
SameNameAndGroup(d) ==
    \E e \in Present(Categories) : e.name = d.name /\ e.group_id = d.group_id

\* C11: while the process is ready, a category without group_id is always accepted,
\* whatever names the store already holds; a category with a group_id is accepted
\* exactly when no category with that name and that group_id is there; so no two
\* categories with a group_id share (name, group_id).
C11_PartialUniqueness ==
    pc[Solo] = "ready" =>
        /\ \A d \in CustomCategoryDocs :
             InsertAllowed(Categories, d, indexes["pantry_categories"]) <=>
                 (d.group_id = Absent \/ ~SameNameAndGroup(d))
        /\ \A d \in Present(Categories) :
             d.group_id # Absent =>
                 /\ Categories[d] = 1
                 /\ \A e \in Present(Categories) :
                      (e.name = d.name /\ e.group_id = d.group_id) => e = d

\* two categories named alike without group_id coexist, and one more would be
\* accepted
C11_Witness ==
    /\ pc[Solo] = "ready"
    /\ \E d \in Present(Categories), e \in Present(Categories) :
         /\ d # e /\ d.name = e.name
         /\ d.group_id = Absent /\ e.group_id = Absent
         /\ e \in CustomCategoryDocs
         /\ InsertAllowed(Categories, e, indexes["pantry_categories"])

-----------------------------------------------------------------------------
(* C12: order of the destructive rebuild of the groups indexes *)

\* the i-th operation of the run of p is `op` on collection `coll`
Issued(p, i, op, coll) ==
    i \in Ran(p) /\ log[p][i].op = op /\ log[p][i].coll = coll

\* the existence probe of the run of p reported the groups collection
ProbeFound(p) ==
    \E i \in Ran(p) : Issued(p, i, "ListCollectionNames", "groups") /\ log[p][i].n = 1

\* the original statement: whenever the groups collection was there when the run
\* started, the creation of the groups indexes comes after a drop and a backfill
C12_OrderWheneverExists ==
    \A i \in Ran(Solo) :
        (Issued(Solo, i, "CreateMany", "groups") /\ begin[Solo].existed) =>
            \E j \in 1..(i - 1), k \in 1..(i - 1) :
                /\ j < k
                /\ Issued(Solo, j, "DropAll", "groups")
                /\ Issued(Solo, k, "UpdateMany", "groups")

\* C12: in every run whose existence probe reports the groups collection, the
\* operations on groups are the probe, the drop of all indexes, the backfill of
\* group_code and the creation of the declared indexes, one right after the other in
\* that order: the drop directly follows the probe that found the collection, the
\* backfill directly follows a successful drop, and the index creation directly
\* follows the backfill, whether the backfill succeeded or not.  A drop or a backfill
\* is never issued in any other place.
C12_RebuildOrder ==
    \A i \in Ran(Solo) :
        /\ Issued(Solo, i, "DropAll", "groups") =>
               /\ i > 1
               /\ Issued(Solo, i - 1, "ListCollectionNames", "groups")
               /\ log[Solo][i - 1].n = 1
        /\ Issued(Solo, i, "UpdateMany", "groups") =>
               /\ i > 1
               /\ Issued(Solo, i - 1, "DropAll", "groups")
               /\ log[Solo][i - 1].res = "ok"
        /\ (Issued(Solo, i, "CreateMany", "groups") /\ ProbeFound(Solo)) =>
               /\ i > 3
               /\ Issued(Solo, i - 1, "UpdateMany", "groups")
               /\ Issued(Solo, i - 2, "DropAll", "groups")
               /\ Issued(Solo, i - 3, "ListCollectionNames", "groups")

\* a run rebuilt the groups indexes of an existing collection although its backfill
\* failed
C12_Witness ==
    /\ pc[Solo] = "ready"
    /\ ProbeFound(Solo)
    /\ \E i \in Ran(Solo) :
         /\ Issued(Solo, i, "CreateMany", "groups") /\ log[Solo][i].res = "ok"
         /\ log[Solo][i - 1].res = "fault"

-----------------------------------------------------------------------------
(* C13: sequencing of the orchestrator *)

\* the place of a collection in the fixed order
Place(c) == CHOOSE k \in 1..Len(Order) : Order[k] = c

\* the index set of c was created before the i-th operation of the run of p
CreatedBefore(p, c, i) ==
    \E j \in 1..(i - 1) : Issued(p, j, "CreateMany", c) /\ log[p][j].res = "ok"

\* C13: in every run the index creations are issued in the order users, groups,
\* chores, recurring_chores, chore_completions, shopping_cart, pantry_categories, each
\* one only after the index creations of all the collections before it have
\* succeeded; the seeder (its count and its batch insert) runs only after all seven
\* have succeeded; Connect is the first operation, Ping the second and issued only
\* after Connect succeeded, and every other operation is issued only after both
\* succeeded.
C13_Sequencing ==
    \A i \in Ran(Solo) :
        LET e == log[Solo][i] IN
        /\ e.op = "CreateMany" =>
               \A k \in 1..(Place(e.coll) - 1) : CreatedBefore(Solo, Order[k], i)
        /\ e.op \in {"CountDocuments", "InsertMany"} =>
               \A c \in Collections : CreatedBefore(Solo, c, i)
        /\ e.op = "Connect" <=> i = 1
        /\ e.op = "Ping" <=> i = 2
        /\ i > 1 => log[Solo][1].res = "ok"
        /\ i > 2 => log[Solo][2].res = "ok"

\* a run went through the seven index creations and the seeding
C13_Witness ==
    /\ pc[Solo] = "ready"
    /\ \A c \in Collections : CreatedBefore(Solo, c, Len(log[Solo]))
    /\ SeedInserted(Solo) = NumPredefined

-----------------------------------------------------------------------------
(* C14: convergence after a run that failed or was killed *)

\* the run of p follows a run that ended fatally or was killed; it has ended, the
\* store and the network did not fail during it and nobody else wrote to the store
LaterRunEnded(p) ==
    /\ runs[p] >= 2 /\ ~prev[p].ready
    /\ Completed(p) /\ Configured(p)
    /\ FaultFree(p) /\ Quiet(p)

\* no two documents of a collection other than groups share a key that a declared
\* index keeps unique
NoDuplicateKeys ==
    \A c \in Collections \ {"groups"} : Consistent(docs[c], Declared(c))

\* the groups the run of p found: at most one lacks group_code, no two share a name or
\* a group_code
GroupsAsClaimed(p) ==
    /\ Legacy(begin[p].groups) <= 1
    /\ NoTwoShare(begin[p].groups, {"name"})
    /\ NoTwoShare(begin[p].groups, {"group_code"})

AllDeclaredPresent == \A c \in Collections : Declared(c) \subseteq indexes[c]

\* the original statement: from a store with at most one group lacking group_code and
\* no duplicate key values, a later run in which nothing fails is ready with all the
\* declared indexes and the whole catalog of predefined categories
C14_ConvergesFromAnyPartialState ==
    (LaterRunEnded(Solo) /\ NoDuplicateKeys /\ GroupsAsClaimed(Solo)) =>
        /\ pc[Solo] = "ready"
        /\ AllDeclaredPresent
        /\ PredefinedCount = NumPredefined

\* C14: a run that ends fatally or is killed rolls nothing back: every index set it
\* created is still in the store.  From the store such a run leaves, provided no two
\* documents share a key value that is to be unique and at most one group either
\* lacks group_code or carries "LEGACY", a later run in which no operation fails
\* because of the store or the network, and during which nobody else writes, reaches
\* the ready state without any operation failing, with all seven declared index sets
\* present; it seeds the whole catalog when the store held no predefined category,
\* and leaves the predefined categories as they are when an interrupted seeding had
\* left some of them.
C14_Convergence ==
    /\ pc[Solo] \in {"exited", "killed"} =>
           \A c \in Collections :
               CreatedBefore(Solo, c, Len(log[Solo]) + 1) => Declared(c) \subseteq indexes[c]
    /\ ( /\ LaterRunEnded(Solo) /\ NoDuplicateKeys
         /\ NoTwoShare(begin[Solo].groups, {"name"})
         /\ NoTwoShare(begin[Solo].groups, {"group_code"})
         /\ Legacy(begin[Solo].groups) + Sentinels(begin[Solo].groups) <= 1 ) =>
           /\ pc[Solo] = "ready"
           /\ Clean(log[Solo])
           /\ AllDeclaredPresent
           /\ PredefinedCount > 0
           /\ SeedInserted(Solo) \in {0, NumPredefined}
           /\ SeedInserted(Solo) = NumPredefined => PredefinedCount = NumPredefined

\* the earlier run had backfilled the one legacy group and was cut short before the
\* seeding; the later run finished the bootstrap
C14_Witness ==
    /\ LaterRunEnded(Solo) /\ NoDuplicateKeys
    /\ Sentinels(begin[Solo].groups) = 1 /\ Legacy(begin[Solo].groups) = 0
    /\ pc[Solo] = "ready"
    /\ AllDeclaredPresent
    /\ SeedInserted(Solo) = NumPredefined

-----------------------------------------------------------------------------
(* C15: uniqueness of groups across a rebuild with clients writing *)

GroupsUnique ==
    /\ NoTwoShare(docs["groups"], {"name"})
    /\ NoTwoShare(docs["groups"], {"group_code"})

\* another client has written to the store since the run of p started
WrittenDuring(p) == writes > begin[p].writes

\* C15: with clients inserting groups at any moment of a run, also between the drop
\* of the groups indexes and their creation: from the moment the creation of the
\* groups indexes has succeeded in the run, and so whenever the run is ready, no two
\* groups share a name or a group_code and the two unique indexes are in place; when
\* the groups hold a duplicate, the creation of the groups indexes, unless the store
\* or the network fails it first, is rejected and the run ends fatally with the groups
\* index error.
C15_UniqueAcrossRebuild ==
    /\ pc[Solo] = "ready" => GroupsUnique
    /\ \A i \in Ran(Solo) :
         Issued(Solo, i, "CreateMany", "groups") =>
             /\ log[Solo][i].res = "ok" =>
                    GroupsUnique /\ groupsIndexes \subseteq indexes["groups"]
             /\ (log[Solo][i].res # "fault" /\ ~GroupsUnique) =>
                    /\ log[Solo][i].res = "rejected"
                    /\ i = Len(log[Solo])
                    /\ pc[Solo] = "exited"
                    /\ fatal[Solo] = ErrorName("groups")

\* a client inserted a group after the backfill of the run and before the index
\* creation; it shares its name with a group that was there, and the run ended
\* fatally
C15_Witness ==
    /\ pc[Solo] = "exited" /\ fatal[Solo] = ErrorName("groups")
    /\ WrittenDuring(Solo)
    /\ NoTwoShare(begin[Solo].groups, {"name"})
    /\ Legacy(begin[Solo].groups) + Sentinels(begin[Solo].groups) <= 1
    /\ \E i \in Ran(Solo) :
         /\ Issued(Solo, i, "UpdateMany", "groups") /\ log[Solo][i].res = "ok"
         /\ Issued(Solo, i - 1, "DropAll", "groups") /\ log[Solo][i - 1].res = "ok"
    /\ Legacy(docs["groups"]) = 1
    /\ ~NoTwoShare(docs["groups"], {"name"})

-----------------------------------------------------------------------------
(* C16: index deletion is confined to groups *)

Others == Collections \ {"groups"}

\* in this step the run of p issues the creation of an index set that is already in
\* the store, and neither the store nor the network fails it
RecreatesExisting(p) ==
    /\ pc[p] \in Collections
    /\ Declared(pc[p]) \subseteq indexes[pc[p]]
    /\ Len(log'[p]) = Len(log[p]) + 1
    /\ log'[p][Len(log'[p])].op = "CreateMany"
    /\ log'[p][Len(log'[p])].res # "fault"

\* the original statement about groups: after a successful run on a store that held
\* the groups collection, the groups indexes are exactly the declared ones
C16_ExactAfterAnySuccessfulRun ==
    (pc[Solo] = "ready" /\ begin[Solo].existed) => indexes["groups"] = groupsIndexes

\* C16: no step of a run removes an index from users, chores, recurring_chores,
\* chore_completions, shopping_cart or pantry_categories; issuing the creation of an
\* index set that is already there succeeds and changes no index; and when a run
\* whose existence probe found the groups collection is ready, the groups indexes are
\* exactly the declared pair, any stale index being gone.  A ready run whose probe did
\* not report the collection has the declared pair too, next to whatever was there.
C16_IndexDeletionConfined ==
    /\ [](pc[Solo] = "ready" =>
            /\ groupsIndexes \subseteq indexes["groups"]
            /\ ProbeFound(Solo) => indexes["groups"] = groupsIndexes)
    /\ [][ /\ \A c \in Others : indexes[c] \subseteq indexes'[c]
           /\ RecreatesExisting(Solo) =>
                  /\ log'[Solo][Len(log'[Solo])].res = "ok"
                  /\ indexes' = indexes ]_vars

\* a second run found every declared index in place, created them again and is ready
\* with the index sets of the first run, the stale groups index gone
C16_Witness ==
    /\ pc[Solo] = "ready"
    /\ prev[Solo].ready
    /\ \A c \in Collections : Declared(c) \subseteq prev[Solo].indexes[c]
    /\ begin[Solo].existed /\ ProbeFound(Solo)
    /\ indexes = prev[Solo].indexes
    /\ \A s \in StaleIndexes : s \notin indexes["groups"]

-----------------------------------------------------------------------------
(* C17: the existence probe gates the remediation of groups *)

\* C17: the probe reports the groups collection only when its catalog query succeeded
\* and, as the collection is never removed, it reports a collection that was there
\* when the run started whenever the query succeeds.  When the probe reports no
\* collection (it is missing, or the query failed) the run issues no drop and no
\* inline backfill, its next operation is the creation of the groups indexes, and
\* the probe never ends the run: a run only ends fatally on an operation other than
\* the probe.
C17_ProbeGatesRemediation ==
    \A i \in Ran(Solo) :
        Issued(Solo, i, "ListCollectionNames", "groups") =>
            /\ log[Solo][i].res = "fault" => log[Solo][i].n = 0
            /\ (log[Solo][i].res = "ok" /\ begin[Solo].existed) => log[Solo][i].n = 1
            /\ log[Solo][i].n = 0 =>
                   /\ \A j \in Ran(Solo) :
                          log[Solo][j].op \notin {"DropAll", "UpdateMany"}
                   /\ i < Len(log[Solo]) => Issued(Solo, i + 1, "CreateMany", "groups")
                   /\ i = Len(log[Solo]) => pc[Solo] \in {"groups", "killed"}
            /\ pc[Solo] = "exited" => i < Len(log[Solo])

\* the probe of a run on an existing collection failed; the run created the groups
\* indexes without drop or backfill and is ready
C17_Witness ==
    /\ pc[Solo] = "ready"
    /\ begin[Solo].existed
    /\ \E i \in Ran(Solo) :
         /\ Issued(Solo, i, "ListCollectionNames", "groups")
         /\ log[Solo][i].res = "fault" /\ log[Solo][i].n = 0
         /\ Issued(Solo, i + 1, "CreateMany", "groups")
    /\ \A j \in Ran(Solo) : log[Solo][j].op \notin {"DropAll", "UpdateMany"}

-----------------------------------------------------------------------------
(* C18: every run ends, and nothing is tried twice *)

\* the positions of a run, in the order of the code
Steps ==
    <<"start", "connect", "ping", "migrate", "users", "groups.probe", "groups.drop",
      "groups.backfill", "groups", "chores", "recurring_chores", "chore_completions",
      "shopping_cart", "pantry_categories", "seed.count", "seed.insert">>

\* how far a position is from the start of the run; the final positions are last
Rank(s) ==
    IF s = "idle" THEN 0
    ELSE IF s \in Final THEN Len(Steps) + 1
    ELSE CHOOSE k \in 1..Len(Steps) : Steps[k] = s

\* the operations whose failure ends the run
Fatal == {"Connect", "Ping", "DropAll", "CreateMany"}

\* C18: a run issues each of its operations at most once, so a failed operation is
\* never issued again; an operation whose failure is fatal is, once failed, the last
\* of the run, and the run is then at its end with the fatal message set; a run that
\* is ready has DB set and no fatal message.  A run that has not ended can always take
\* its next step, every step of a run moves it forward in the order of the code, and
\* a run that has ended, ready or exited, does nothing more until the process is
\* started again: so every run ends, after at most one pass over its steps, either
\* ready or exited (or killed from outside).
C18_TerminatesWithoutRetry ==
    /\ [](/\ \A i \in Ran(Solo), j \in Ran(Solo) :
               (log[Solo][i].op = log[Solo][j].op /\ log[Solo][i].coll = log[Solo][j].coll)
                   => i = j
          /\ \A i \in Ran(Solo) :
               (log[Solo][i].op \in Fatal /\ Failed(Solo, i)) =>
                   /\ i = Len(log[Solo])
                   /\ pc[Solo] = "exited"
          /\ pc[Solo] = "exited" => fatal[Solo] # Nil /\ Rank(pc[Solo]) = Len(Steps) + 1
          /\ pc[Solo] = "ready" => fatal[Solo] = Nil /\ DB[Solo] # Nil
          /\ pc[Solo] \notin Final \cup {"idle"} => ENABLED Bootstrap(Solo))
    /\ [][ IF runs' # runs
           THEN pc[Solo] \in Final \cup {"idle"}
           ELSE /\ pc'[Solo] # pc[Solo] => Rank(pc'[Solo]) > Rank(pc[Solo])
                /\ log'[Solo] # log[Solo] =>
                       /\ pc'[Solo] # pc[Solo]
                       /\ Len(log'[Solo]) = Len(log[Solo]) + 1
                /\ pc[Solo] \in Final =>
                       /\ pc'[Solo] = pc[Solo] /\ log'[Solo] = log[Solo]
                       /\ DB'[Solo] = DB[Solo] /\ fatal'[Solo] = fatal[Solo]
                       /\ indexes' = indexes ]_vars

\* the longest run: every operation once, the failed backfill not issued again
C18_Witness ==
    /\ pc[Solo] = "ready"
    /\ Len(log[Solo]) = Len(Steps) - 1
    /\ \E i \in Ran(Solo) : Issued(Solo, i, "UpdateMany", "groups") /\ Failed(Solo, i)

-----------------------------------------------------------------------------
(* C19: initialisation of the shared state *)

\* the i-th operation of the run of p is `op` and it succeeded
Succeeded(p, i, op) == i \in Ran(p) /\ Did(p, i, op) /\ ~Failed(p, i)

\* C19: JWTSecret is set only in a run whose three configuration values are all
\* non-empty once trimmed, and it is then the trimmed JWT_SECRET; DB is set only after
\* Connect and Ping have both succeeded in the run, and it is then the trimmed
\* DB_NAME; a run that is ready has both set and its seven index creations succeeded.
\* Within a run each of the two is assigned at most once: once set it keeps its value
\* until the process is started again, and it is unset only by such a start.
C19_SharedState ==
    /\ [](/\ JWTSecret[Solo] # Nil =>
               /\ Configured(Solo)
               /\ JWTSecret[Solo] = TrimSpace(env[Solo].JWT_SECRET)
               /\ pc[Solo] \notin {"idle", "start"}
          /\ DB[Solo] # Nil =>
               /\ Succeeded(Solo, 1, "Connect") /\ Succeeded(Solo, 2, "Ping")
               /\ DB[Solo] = TrimSpace(env[Solo].DB_NAME)
               /\ JWTSecret[Solo] # Nil
          /\ pc[Solo] = "ready" =>
               /\ JWTSecret[Solo] # Nil /\ DB[Solo] # Nil
               /\ AllIndexesCreated(Solo))
    /\ [][ IF runs' # runs
           THEN JWTSecret'[Solo] = Nil /\ DB'[Solo] = Nil
           ELSE /\ JWTSecret[Solo] # Nil => JWTSecret'[Solo] = JWTSecret[Solo]
                /\ DB[Solo] # Nil => DB'[Solo] = DB[Solo]
                /\ JWTSecret'[Solo] # JWTSecret[Solo] => pc[Solo] = "start"
                /\ DB'[Solo] # DB[Solo] => pc[Solo] = "ping" ]_vars

\* ConnectDB has returned with the secret and the handle set to the trimmed values
C19_Witness ==
    /\ pc[Solo] = "ready"
    /\ JWTSecret[Solo] = TrimSpace(env[Solo].JWT_SECRET)
    /\ JWTSecret[Solo] # env[Solo].JWT_SECRET
    /\ DB[Solo] = TrimSpace(env[Solo].DB_NAME)
    /\ AllIndexesCreated(Solo)
    /\ Succeeded(Solo, 1, "Connect") /\ Succeeded(Solo, 2, "Ping")

====
